---- MODULE Spec2Model ----
(***************************************************************************)
(* One invocation of one of the four browser scrapers of the repository:   *)
(*   GenericPage      scripts/undetected-chrome.py                         *)
(*   SecondarySearch  src/scrapers/brave-search.py                         *)
(*   PrimarySearch    src/scrapers/google-search.py                        *)
(*   CaptionPanel     src/scrapers/youtube-caption-scraper.py              *)
(* The process runs from the module import guard to its exit.  Every       *)
(* driver call is a blocking round trip whose outcome (ok, timeout, error) *)
(* the environment chooses.                                                *)
(***************************************************************************)
EXTENDS Integers, Sequences, FiniteSets

(* ---- bounds of the model ---- *)
\* largest number of consecutive polls a scripted page reports a challenge
MaxChallengePolls == 16
\* largest extra delay, in seconds, one interstitial poll cycle can take
MaxLatency == 1
\* largest number of elements a selector matches on a page
MaxElements == 3
\* largest --max-results
MaxCap == 2

(* ---- program constants ---- *)
\* max_challenge_wait = 30
MAX_CHALLENGE_WAIT == 30
\* time.sleep(2) between two polls
POLL_SLEEP == 2
\* find_elements(By.CSS_SELECTOR, 'a[href]')[:100]
MAX_LINKS == 100
\* find_elements(By.CSS_SELECTOR, 'img[src]')[:50]
MAX_IMAGES == 50

Modes == {"GenericPage", "SecondarySearch", "PrimarySearch", "CaptionPanel"}

\* Boundary inputs.  GenericPage reads one JSON document from stdin.  The
\* three other modes take a parsed command line (argument parsing is an
\* external collaborator of the scrapers).
Inputs(m) ==
    IF m = "GenericPage"
    THEN {"empty", "notjson", "notobject", "nourl", "ok"}
    ELSE {"ok"}

VARIABLES
    mode,               \* which scraper runs
    input,              \* kind of boundary input
    importOK,           \* the selenium / chromedriver imports succeed
    interactive,        \* --interactive flag
    take_screenshot,    \* config 'screenshot'
    neverClears,        \* the page shows a challenge on every poll
    challengePolls,     \* otherwise: number of leading polls showing one
    pc,                 \* position of the process
    driver,             \* the scrape function's local `driver` is bound
    browser,            \* the browser process: none / running / stopped
    session,            \* Unopened / Open / Closed
    result,             \* value the scrape function is about to return
    computed,           \* value computed by its try / except body
    exc,                \* exception in flight
    stdout,             \* JSON objects written to standard output
    stderrJson,         \* JSON objects written to standard error
    exitStatus,         \* exit status (meaningful once pc = "exited")
    launchCount,        \* browser launches attempted
    quitCount,          \* driver.quit() calls issued
    quitRaised,         \* a driver.quit() call raised
    launchStepFailed,   \* a launch-time step failed after the browser started
    unhandledFault,     \* an unclassified fault was raised after launch
    polls,              \* interstitial polls performed
    elapsed,            \* seconds since challenge_start
    cloudflare_detected,
    warned,             \* the "challenge still present" line was written
    budgetExhausted,    \* the poll loop ended because its guard failed
    cyclesEnd,          \* elapsed when the challengePolls-th poll cycle ended
    extractStarted,     \* the extraction phase has been entered
    dom,                \* the page the browser shows once it has loaded
    max_results,        \* --max-results
    proxy_username,     \* --proxy-username / WEBSHARE_PROXY_USERNAME
    proxy_password,     \* --proxy-password / WEBSHARE_PROXY_PASSWORD
    transcript_button,  \* the caption scraper's local `transcript_button`
    calls,              \* driver calls issued so far, in order
    navTimedOut,        \* a driver.get() ended with TimeoutException
    stderrLog,          \* data-bearing lines written to standard error
    timeout,            \* config 'timeout' (ms) / --timeout (s)
    include_timestamps, \* --timestamps
    pollFaulted,        \* a driver call of an interstitial poll raised
    page_load_timeout   \* the page-load timeout set on the session

config == <<mode, input, importOK, interactive, take_screenshot,
            neverClears, challengePolls, dom, max_results,
            proxy_username, proxy_password, timeout, include_timestamps>>
resolver == <<polls, elapsed, cloudflare_detected, warned, budgetExhausted,
              cyclesEnd, extractStarted>>
history == <<launchCount, quitCount, quitRaised, launchStepFailed, unhandledFault>>
io == <<stdout, stderrJson, exitStatus>>
trace == <<transcript_button, calls, navTimedOut, stderrLog>>
applied == <<pollFaulted, page_load_timeout>>
vars == <<config, pc, driver, browser, session, result, computed, exc,
          io, history, resolver, trace, applied>>

(* ---- results ---- *)
NoResult == [none |-> TRUE]
IsResult(r) == "none" \notin DOMAIN r
Has(r, f) == f \in DOMAIN r
IsSuccess(r) == Has(r, "success") /\ r.success = TRUE

\* result.get('success') / result['success'] as a truth value
Truthy(r) == IsSuccess(r)

(***************************************************************************)
(* The page.  A text is modelled by whether it is empty and by the element *)
(* it was read from, a URL by its kind and by the element it was read      *)
(* from.  An element is named by the pair <<tier, position>>: the tier is  *)
(* the index of the container selector that matched it (0 for the script   *)
(* fallback and for the generic page), the position its DOM order.         *)
(***************************************************************************)
Min(a, b) == IF a < b THEN a ELSE b

\* s[:n]
Slice(s, n) == SubSeq(s, 1, Min(n, Len(s)))

SeqsUpTo(S, n) == UNION {[1..k -> S] : k \in 0..n}

\* Python's None
None == [none |-> TRUE]
IsNone(x) == "none" \in DOMAIN x

EmptyText == [empty |-> TRUE]
Text(at, role) == [empty |-> FALSE, at |-> at, role |-> role]

\* truth value of a str-or-None
TextTruthy(t) == "empty" \in DOMAIN t /\ ~t.empty

\* elem.text.strip() / textContent.trim() of an element whose text is of kind k
element_text(k, at, role) == IF k = "text" THEN Text(at, role) ELSE EmptyText

\* WebElement.get_attribute('href' / 'src') of an element whose attribute is
\* written in the document as `raw`: None when the attribute is absent, the
\* empty string when it is empty, and otherwise the element's resolved
\* property, an absolute URL.  A fragment-only href ("#top") and a relative one
\* resolve against the page's own http(s) address.
get_attribute_url(raw, at) ==
    CASE raw = "absent" -> None
      [] raw = "empty" -> [kind |-> "empty", samePage |-> FALSE, at |-> at]
      [] raw = "fragment" -> [kind |-> "http", samePage |-> TRUE, at |-> at]
      [] raw = "other" -> [kind |-> "other", samePage |-> FALSE, at |-> at]
      [] OTHER -> [kind |-> "http", samePage |-> FALSE, at |-> at]

\* the `href` property read by the injected script: '' without the attribute
js_href(raw, at) ==
    IF raw = "absent"
    THEN [kind |-> "empty", samePage |-> FALSE, at |-> at]
    ELSE get_attribute_url(raw, at)

\* truth value of a URL-or-None
UrlTruthy(u) == "kind" \in DOMAIN u /\ u.kind # "empty"

\* url.startswith('http')
startswith_http(u) == u.kind = "http"

\* href.startswith('#'): true of a value that is itself a bare fragment
startswith_hash(u) == u.kind = "fragment"

\* driver.find_elements(By.CSS_SELECTOR, <the i-th container selector>)
find_elements(d, i) == IF i \in d.matches THEN d.containers ELSE <<>>

(* ---- the pages an invocation is run against ---- *)
\* href attributes of the generic page's a[href] elements, src of its img[src]
LinkKinds == {"http", "fragment", "empty"}
ImageKinds == {"http", "empty"}

GenericDoms ==
    {[links |-> ls, images |-> is] :
        ls \in SeqsUpTo(LinkKinds, MaxElements),
        is \in SeqsUpTo(ImageKinds, MaxElements)}

\* a page with one link and one image more than the payloads may hold
LongPage ==
    [links |-> [i \in 1..(MAX_LINKS + 1) |-> "http"],
     images |-> [i \in 1..(MAX_IMAGES + 1) |-> "http"]]

\* two ordinary links, one fragment-only link and one image
ScenarioPage == [links |-> <<"http", "fragment", "http">>, images |-> <<"http">>]

\* result containers of the primary search page: its h3, the href of its
\* first <a> ("no_a": there is no <a>), and its snippet element
GoogleContainers ==
    {[h3 |-> "text", a |-> "http", snippet |-> "text"],
     [h3 |-> "text", a |-> "http", snippet |-> "absent"],
     [h3 |-> "absent", a |-> "http", snippet |-> "text"],
     [h3 |-> "empty", a |-> "http", snippet |-> "text"],
     [h3 |-> "text", a |-> "other", snippet |-> "text"],
     [h3 |-> "text", a |-> "no_a", snippet |-> "text"]}

\* what one candidate selector finds inside a container
Absent == [found |-> FALSE]
TitleCand(text, href) == [found |-> TRUE, text |-> text, href |-> href]
DescCand(text) == [found |-> TRUE, text |-> text]

\* result containers of the secondary search page: what each of the four
\* title selectors and each of the four description selectors finds in it
BraveContainers ==
    {[titles |-> <<TitleCand("text", "http"), TitleCand("text", "http"),
                   Absent, Absent>>,
      descs |-> <<DescCand("text"), DescCand("text"), Absent, Absent>>],
     [titles |-> <<TitleCand("text", "absent"), TitleCand("text", "http"),
                   Absent, Absent>>,
      descs |-> <<DescCand("empty"), DescCand("text"), Absent, Absent>>],
     [titles |-> <<Absent, TitleCand("text", "http"), Absent, Absent>>,
      descs |-> <<Absent, Absent, Absent, Absent>>],
     [titles |-> <<Absent, Absent, Absent, Absent>>,
      descs |-> <<DescCand("text"), Absent, Absent, Absent>>],
     [titles |-> <<TitleCand("empty", "http"), Absent, Absent, Absent>>,
      descs |-> <<DescCand("text"), Absent, Absent, Absent>>],
     [titles |-> <<TitleCand("text", "absent"), Absent, Absent, Absent>>,
      descs |-> <<DescCand("text"), Absent, Absent, Absent>>]}

\* items the injected script returns: the text and href of the title element
JsItems ==
    {[title |-> "text", url |-> "http"],
     [title |-> "empty", url |-> "http"],
     [title |-> "text", url |-> "absent"]}

\* A search page: `matches` are the container selectors that match, each of
\* them matching `containers`; `js` is what the injected script of the
\* secondary search returns (items: JsItems there, none in the primary
\* search, which has no such script); `broken` says that the first driver
\* call of the extraction fails.
SearchDoms(nsel, kinds, items) ==
    {[broken |-> FALSE, matches |-> m, containers |-> cs, js |-> js] :
        m \in (SUBSET (1..nsel)) \ {{}},
        cs \in SeqsUpTo(kinds, MaxElements) \ {<<>>},
        js \in SeqsUpTo(items \cap {[title |-> "text", url |-> "http"]}, 1)}
    \cup {[broken |-> FALSE, matches |-> {}, containers |-> <<>>, js |-> js] :
        js \in SeqsUpTo(items, MaxElements)}
    \cup {[broken |-> TRUE, matches |-> IF cs = <<>> THEN {} ELSE {1},
           containers |-> cs, js |-> <<>>] :
        cs \in SeqsUpTo(kinds, 1)}

\* a ytd-transcript-segment-renderer element: what '.segment-timestamp' and
\* '.segment-text' find in it ("absent": find_element raises)
SegmentKinds ==
    {[timestamp |-> "text", text |-> "text"],
     [timestamp |-> "absent", text |-> "text"],
     [timestamp |-> "text", text |-> "absent"],
     [timestamp |-> "text", text |-> "empty"]}

\* the transcript panel of a video page
CaptionDoms == {[segments |-> ss] : ss \in SeqsUpTo(SegmentKinds, MaxElements)}

Doms(m) ==
    CASE m = "GenericPage" -> GenericDoms \cup {LongPage}
      [] m = "PrimarySearch" -> SearchDoms(2, GoogleContainers, {})
      [] m = "SecondarySearch" -> SearchDoms(4, BraveContainers, JsItems)
      [] OTHER -> CaptionDoms

SizeOf(d) ==
    CASE "links" \in DOMAIN d -> Len(d.links) + Len(d.images)
      [] "containers" \in DOMAIN d -> Len(d.containers) + Len(d.js)
      [] "segments" \in DOMAIN d -> Len(d.segments)
      [] OTHER -> 0

\* the pages of the whole-process specification
ProcessDoms(m) ==
    {d \in Doms(m) : \/ SizeOf(d) = 0
                     \/ /\ SizeOf(d) = 1
                        /\ "matches" \in DOMAIN d
                        /\ d.matches = {1}
                     \/ /\ SizeOf(d) = 1
                        /\ "segments" \in DOMAIN d}
    \cup (IF m = "GenericPage" THEN {ScenarioPage} ELSE {})

Caps == 0..MaxCap

\* proxy credentials of the command line or the environment ("": not given)
ProxyUsernames == {"", "alice", "bob"}
ProxyPasswords == {"", "s3cret"}

\* the timeouts an invocation may be configured with: milliseconds in the
\* generic scraper's config, seconds on the command line of the primary
\* search and of the caption scraper; the secondary search accepts none
Timeouts(m) ==
    CASE m = "GenericPage" -> {10000, 30000}
      [] m \in {"PrimarySearch", "CaptionPanel"} -> {10, 30}
      [] OTHER -> {None}

\* timeout = config.get('timeout', 30000) / 1000
uc_timeout(ms) == ms \div 1000

\* driver.set_page_load_timeout(30) of the two search scrapers
GOOGLE_PAGE_LOAD_TIMEOUT == 30
BRAVE_PAGE_LOAD_TIMEOUT == 30

\* the argument each mode passes to driver.set_page_load_timeout
uc_page_load_timeout(t) == uc_timeout(t)
google_page_load_timeout(t) == GOOGLE_PAGE_LOAD_TIMEOUT
brave_page_load_timeout(t) == BRAVE_PAGE_LOAD_TIMEOUT
yt_page_load_timeout(t) == t

Init ==
    /\ mode \in Modes
    /\ input \in Inputs(mode)
    /\ importOK \in BOOLEAN
    /\ interactive \in (IF mode \in {"CaptionPanel", "PrimarySearch"}
                        THEN BOOLEAN ELSE {FALSE})
    /\ take_screenshot \in (IF mode = "GenericPage" THEN BOOLEAN ELSE {FALSE})
    /\ neverClears \in (IF mode = "GenericPage" THEN BOOLEAN ELSE {FALSE})
    /\ challengePolls \in (IF mode = "GenericPage" /\ ~neverClears
                           THEN 0..MaxChallengePolls ELSE {0})
    /\ pc = "import"
    /\ driver = FALSE
    /\ browser = "none"
    /\ session = "Unopened"
    /\ result = NoResult
    /\ computed = NoResult
    /\ exc = "none"
    /\ stdout = <<>>
    /\ stderrJson = 0
    /\ exitStatus = 0
    /\ launchCount = 0
    /\ quitCount = 0
    /\ quitRaised = FALSE
    /\ launchStepFailed = FALSE
    /\ unhandledFault = FALSE
    /\ polls = 0
    /\ elapsed = 0
    /\ cloudflare_detected = FALSE
    /\ warned = FALSE
    /\ budgetExhausted = FALSE
    /\ cyclesEnd = 0
    /\ extractStarted = FALSE
    /\ dom \in ProcessDoms(mode)
    /\ max_results \in (IF mode \in {"PrimarySearch", "SecondarySearch"}
                        THEN Caps ELSE {0})
    /\ proxy_username \in (IF mode = "PrimarySearch" THEN ProxyUsernames ELSE {""})
    /\ proxy_password \in (IF mode = "PrimarySearch" THEN ProxyPasswords ELSE {""})
    /\ transcript_button = "None"
    /\ calls = <<>>
    /\ navTimedOut = FALSE
    /\ stderrLog = <<>>
    /\ timeout \in Timeouts(mode)
    /\ include_timestamps \in (IF mode = "CaptionPanel" THEN BOOLEAN ELSE {FALSE})
    /\ pollFaulted = FALSE
    /\ page_load_timeout = None

\* sys.exit(code), or the interpreter ending after an uncaught exception
Exit(code) ==
    /\ pc' = "exited"
    /\ exitStatus' = code

\* an exception raised inside the scrape function's try block
Raise(e, handler) ==
    /\ exc' = e
    /\ pc' = handler

\* outcomes of one blocking driver round trip
DriverOutcomes == {"ok", "timeout", "error"}
ExcOf(o) == IF o = "timeout" THEN "TimeoutException" ELSE "WebDriverException"

(***************************************************************************)
(* GenericPage: scripts/undetected-chrome.py                               *)
(***************************************************************************)
uc_no_input_result == [success |-> FALSE, error |-> "No input provided"]
uc_invalid_json_result == [success |-> FALSE, error |-> "Invalid JSON input"]
uc_unexpected_result == [success |-> FALSE, error |-> "Unexpected error"]

\* variant: the failure result is flagged as a success
uc_error_result_flagged(e) == [success |-> TRUE, error |-> e]

uc_error_result(e) == [success |-> FALSE, error |-> e]

\* variant: every a[href] element of the page is read
uc_links_uncapped(d) ==
    LET anchors == d.links
        read == [i \in 1..Len(anchors) |->
                    [href |-> get_attribute_url(anchors[i], <<0, i>>),
                     text |-> "text"]]
    IN  SelectSeq(read, LAMBDA r : UrlTruthy(r.href) /\ ~startswith_hash(r.href))

\* links: the first 100 a[href] elements, keeping those whose href is set and
\* does not start with '#'
uc_links(d) ==
    LET anchors == Slice(d.links, MAX_LINKS)
        read == [i \in 1..Len(anchors) |->
                    [href |-> get_attribute_url(anchors[i], <<0, i>>),
                     text |-> "text"]]
    IN  SelectSeq(read, LAMBDA r : UrlTruthy(r.href) /\ ~startswith_hash(r.href))

\* images: the first 50 img[src] elements, keeping those whose src is set
uc_images(d) ==
    LET imgs == Slice(d.images, MAX_IMAGES)
        read == [i \in 1..Len(imgs) |->
                    [src |-> get_attribute_url(imgs[i], <<0, i>>),
                     alt |-> "alt"]]
    IN  SelectSeq(read, LAMBDA r : UrlTruthy(r.src))

uc_success_result(shot) ==
    [success |-> TRUE, title |-> "title", text |-> "text", html |-> "html",
     links |-> uc_links(dom), images |-> uc_images(dom),
     screenshot |-> IF shot THEN "base64" ELSE "null",
     timings |-> "timings"]

\* the import guard: on ImportError the JSON goes to the standard error stream
uc_import_guard ==
    /\ mode = "GenericPage" /\ pc = "import"
    /\ IF importOK
       THEN /\ pc' = "main"
            /\ UNCHANGED io
       ELSE /\ stderrJson' = stderrJson + 1
            /\ Exit(1)
            /\ UNCHANGED stdout
    /\ UNCHANGED <<config, driver, browser, session, result, computed, exc,
                   history, resolver>>
    /\ UNCHANGED trace
    /\ UNCHANGED applied

\* main(): read stdin, parse it, read the configuration fields
uc_main_read ==
    /\ mode = "GenericPage" /\ pc = "main"
    /\ CASE input = "empty" ->
              /\ stdout' = Append(stdout, uc_no_input_result)
              /\ Exit(1)
         [] input = "notjson" ->
              /\ stdout' = Append(stdout, uc_invalid_json_result)
              /\ Exit(1)
         [] input = "notobject" ->
              \* config.get raises before the try block of the scrape function
              /\ stdout' = Append(stdout, uc_unexpected_result)
              /\ Exit(1)
         [] OTHER ->
              /\ pc' = "launch"
              /\ UNCHANGED <<stdout, exitStatus>>
    /\ UNCHANGED <<config, driver, browser, session, result, computed, exc,
                   stderrJson, history, resolver>>
    /\ UNCHANGED trace
    /\ UNCHANGED applied

\* uc.Chrome(options=options, version_main=None)
uc_launch ==
    /\ mode = "GenericPage" /\ pc = "launch"
    /\ launchCount' = launchCount + 1
    /\ \E ok \in BOOLEAN :
         IF ok
         THEN /\ driver' = TRUE
              /\ browser' = "running"
              /\ pc' = "set_timeout"
              /\ UNCHANGED exc
         ELSE /\ Raise("WebDriverException", "except")
              /\ UNCHANGED <<driver, browser>>
    /\ UNCHANGED <<config, session, result, computed, io, quitCount, quitRaised,
                   launchStepFailed, unhandledFault, resolver>>
    /\ calls' = Append(calls, "launch")
    /\ UNCHANGED <<transcript_button, navTimedOut, stderrLog>>
    /\ UNCHANGED applied

\* driver.set_page_load_timeout(timeout)
uc_set_page_load_timeout ==
    /\ mode = "GenericPage" /\ pc = "set_timeout"
    /\ \E ok \in BOOLEAN :
         IF ok
         THEN /\ session' = "Open"
              /\ pc' = "navigate"
              /\ UNCHANGED <<exc, launchStepFailed>>
              /\ page_load_timeout' = [seconds |-> uc_page_load_timeout(timeout)]
         ELSE /\ Raise("WebDriverException", "except")
              /\ launchStepFailed' = TRUE
              /\ UNCHANGED session
              /\ UNCHANGED page_load_timeout
    /\ UNCHANGED <<config, driver, browser, result, computed, io, launchCount,
                   quitCount, quitRaised, unhandledFault, resolver>>
    /\ calls' = Append(calls, "set_page_load_timeout")
    /\ UNCHANGED <<transcript_button, navTimedOut, stderrLog>>
    /\ UNCHANGED pollFaulted

\* variant: the page is extracted as soon as it has loaded
uc_navigated_pc_extract == "extract"

\* after driver.get(url) the challenge loop is entered
uc_navigated_pc == "resolve"

\* driver.get(url); challenge_start = time.time()
uc_navigate ==
    /\ mode = "GenericPage" /\ pc = "navigate"
    /\ \E o \in (IF input = "nourl" THEN {"error"} ELSE DriverOutcomes) :
         /\ navTimedOut' = (navTimedOut \/ o = "timeout")
         /\ IF o = "ok"
            THEN /\ pc' = uc_navigated_pc
                 /\ UNCHANGED <<exc, unhandledFault>>
            ELSE /\ Raise(ExcOf(o), "except")
                 /\ unhandledFault' = (unhandledFault \/ o = "error")
    /\ UNCHANGED <<config, driver, browser, session, result, computed, io,
                   launchCount, quitCount, quitRaised, launchStepFailed, resolver>>
    /\ calls' = Append(calls, "get")
    /\ UNCHANGED <<transcript_button, stderrLog>>
    /\ UNCHANGED applied

\* is_challenge on the n-th poll of the scripted page
is_challenge(n) == neverClears \/ n <= challengePolls

\* variant: the sleep between two polls is one second short
uc_poll_sleep_short == POLL_SLEEP - 1

\* seconds slept after a poll that detected a challenge
uc_poll_sleep == POLL_SLEEP

\* variant: the elapsed seconds are compared as if they were milliseconds
uc_within_budget_ms == elapsed * 1000 < MAX_CHALLENGE_WAIT

\* the loop guard: (time.time() - challenge_start) < max_challenge_wait
uc_within_budget == elapsed < MAX_CHALLENGE_WAIT

\* a poll that detects no challenge leaves the loop (break)
uc_poll_clear_pc == "after_resolve"

\* the loop body has no handler of its own: an exception raised by
\* find_element / title leaves the try block
uc_poll_fault_open == "after_resolve"
uc_poll_fault_handler == "except"

\* one iteration of the while loop
uc_poll ==
    /\ mode = "GenericPage" /\ pc = "resolve"
    /\ uc_within_budget
    /\ polls' = polls + 1
    /\ \E d \in 0..MaxLatency, fault \in BOOLEAN :
         IF fault
         THEN \* find_element / title raised
              /\ Raise("WebDriverException", uc_poll_fault_handler)
              /\ unhandledFault' = TRUE
              /\ pollFaulted' = TRUE
              /\ elapsed' = elapsed + d
              /\ UNCHANGED <<cloudflare_detected, cyclesEnd>>
         ELSE /\ UNCHANGED <<exc, unhandledFault, pollFaulted>>
              /\ IF is_challenge(polls + 1)
                 THEN /\ cloudflare_detected' = TRUE
                      /\ elapsed' = elapsed + d + uc_poll_sleep
                      /\ cyclesEnd' = IF polls + 1 = challengePolls
                                      THEN elapsed' ELSE cyclesEnd
                      /\ pc' = "resolve"
                 ELSE /\ elapsed' = elapsed + d
                      /\ pc' = uc_poll_clear_pc
                      /\ UNCHANGED <<cloudflare_detected, cyclesEnd>>
    /\ UNCHANGED <<config, driver, browser, session, result, computed, io,
                   launchCount, quitCount, quitRaised, launchStepFailed,
                   warned, budgetExhausted, extractStarted>>
    /\ calls' = Append(calls, "poll")
    /\ UNCHANGED <<transcript_button, navTimedOut, stderrLog>>
    /\ UNCHANGED page_load_timeout

\* the loop guard fails: the loop ends without break
uc_budget_exit ==
    /\ mode = "GenericPage" /\ pc = "resolve"
    /\ ~uc_within_budget
    /\ budgetExhausted' = TRUE
    /\ pc' = "after_resolve"
    /\ UNCHANGED <<config, driver, browser, session, result, computed, exc, io,
                   history, polls, elapsed, cloudflare_detected, warned,
                   cyclesEnd, extractStarted>>
    /\ UNCHANGED trace
    /\ UNCHANGED applied

\* whether the "challenge still present" line is written after the loop
uc_warning == cloudflare_detected

\* after the loop: the warning line, then the wait_after_load sleep
uc_after_resolve ==
    /\ mode = "GenericPage" /\ pc = "after_resolve"
    /\ warned' = uc_warning
    /\ pc' = "extract"
    /\ UNCHANGED <<config, driver, browser, session, result, computed, exc, io,
                   history, polls, elapsed, cloudflare_detected, budgetExhausted,
                   cyclesEnd, extractStarted>>
    /\ UNCHANGED trace
    /\ UNCHANGED applied

\* title, text, html, links, images, optional screenshot, result
uc_extract ==
    /\ mode = "GenericPage" /\ pc = "extract"
    /\ extractStarted' = TRUE
    /\ \E ok \in BOOLEAN :
         IF ok
         THEN /\ calls' = calls \o <<"title", "execute_script", "body", "page_source",
                                      "a[href]", "img[src]">>
              /\ result' = uc_success_result(take_screenshot)
              /\ computed' = uc_success_result(take_screenshot)
              /\ pc' = "finally"
              /\ UNCHANGED <<exc, unhandledFault>>
         ELSE /\ calls' = Append(calls, "title")
              /\ Raise("WebDriverException", "except")
              /\ unhandledFault' = TRUE
              /\ UNCHANGED <<result, computed>>
    /\ UNCHANGED <<config, driver, browser, session, io, launchCount, quitCount,
                   quitRaised, launchStepFailed, polls, elapsed,
                   cloudflare_detected, warned, budgetExhausted, cyclesEnd>>
    /\ UNCHANGED <<transcript_button, navTimedOut, stderrLog>>
    /\ UNCHANGED applied

\* except Exception as e: return {'success': False, 'error': str(e)}
uc_except ==
    /\ mode = "GenericPage" /\ pc = "except"
    /\ result' = uc_error_result(exc)
    /\ computed' = uc_error_result(exc)
    /\ exc' = "none"
    /\ pc' = "finally"
    /\ UNCHANGED <<config, driver, browser, session, io, history, resolver>>
    /\ UNCHANGED trace
    /\ UNCHANGED applied

\* finally: if driver: try: driver.quit() except: pass
uc_finally ==
    /\ mode = "GenericPage" /\ pc = "finally"
    /\ IF driver
       THEN /\ quitCount' = quitCount + 1
            /\ \E ok \in BOOLEAN :
                 IF ok
                 THEN /\ browser' = "stopped"
                      /\ session' = "Closed"
                      /\ UNCHANGED quitRaised
                 ELSE /\ quitRaised' = TRUE
                      /\ browser' \in {"running", "stopped"}
                      /\ UNCHANGED session
       ELSE UNCHANGED <<quitCount, quitRaised, browser, session>>
    /\ pc' = "write"
    /\ UNCHANGED <<config, driver, result, computed, exc, io, launchCount,
                   launchStepFailed, unhandledFault, resolver>>
    /\ calls' = IF driver THEN Append(calls, "quit") ELSE calls
    /\ UNCHANGED <<transcript_button, navTimedOut, stderrLog>>
    /\ UNCHANGED applied

\* print(json.dumps(result)); sys.exit(0 if result.get('success') else 1)
uc_main_write ==
    /\ mode = "GenericPage" /\ pc = "write"
    /\ stdout' = Append(stdout, result)
    /\ Exit(IF Truthy(result) THEN 0 ELSE 1)
    /\ UNCHANGED <<config, driver, browser, session, result, computed, exc,
                   stderrJson, history, resolver>>
    /\ UNCHANGED trace
    /\ UNCHANGED applied

(***************************************************************************)
(* Search modes: the extraction step is total (every fault inside          *)
(* extract_search_results is caught there) and returns a list of records.  *)
(* The operators below return that list and the container selectors and    *)
(* scripts the extraction evaluated, in order.                             *)
(***************************************************************************)

(***************************************************************************)
(* PrimarySearch: src/scrapers/google-search.py                            *)
(***************************************************************************)
google_selectors ==
    <<"div.g, div[data-sokoban-container], div.Gx5Zad", "div[jscontroller]">>

\* variant: both selectors are evaluated and their elements put together
google_search_elements_both(d) ==
    [tier |-> 1, elements |-> find_elements(d, 1) \o find_elements(d, 2),
     evaluated |-> google_selectors]

\* the containers: the alternative selector is tried when the first finds none
google_search_elements(d) ==
    LET first == find_elements(d, 1)
    IN  IF first # <<>>
        THEN [tier |-> 1, elements |-> first,
              evaluated |-> <<google_selectors[1]>>]
        ELSE [tier |-> 2, elements |-> find_elements(d, 2),
              evaluated |-> google_selectors]

\* the body of the loop for one container: its record, or None when the
\* iteration ends with `continue`
google_record(e, at) ==
    IF e.h3 = "absent" \/ e.a = "no_a"
    THEN None
    ELSE LET title == element_text(e.h3, at, <<"h3", 1>>)
             url == get_attribute_url(e.a, at)
         IN  IF UrlTruthy(url) /\ startswith_http(url)
             THEN [title |-> title, url |-> url,
                   snippet |-> IF e.snippet = "absent"
                               THEN title
                               ELSE element_text(e.snippet, at, <<"snippet", 1>>)]
             ELSE None

\* number of containers the loop examines: search_elements[:max_results * 2]
google_examined(cap) == cap * 2

\* the loop over the containers, left once max_results records are collected
RECURSIVE google_loop(_, _, _, _, _)
google_loop(elements, tier, i, results, cap) ==
    IF i > Len(elements)
    THEN results
    ELSE LET r == google_record(elements[i], <<tier, i>>)
         IN  IF IsNone(r)
             THEN google_loop(elements, tier, i + 1, results, cap)
             ELSE IF Len(results) + 1 >= cap
                  THEN Append(results, r)
                  ELSE google_loop(elements, tier, i + 1, Append(results, r), cap)

google_extract_search_results(d, cap) ==
    IF d.broken
    THEN \* the wait for document.readyState fails: return []
         [results |-> <<>>, evaluated |-> <<>>]
    ELSE LET found == google_search_elements(d)
         IN  [results |-> google_loop(Slice(found.elements, google_examined(cap)),
                                      found.tier, 1, <<>>, cap),
              evaluated |-> found.evaluated]

google_success_result(rs) ==
    [success |-> TRUE, query |-> "q", results |-> rs, count |-> Len(rs)]

google_error_result(e) == [success |-> FALSE, error |-> e, query |-> "q"]

\* the import guard: two plain ERROR lines on stderr, exit 1
google_import_guard ==
    /\ mode = "PrimarySearch" /\ pc = "import"
    /\ IF importOK
       THEN /\ pc' = "main"
            /\ UNCHANGED exitStatus
       ELSE Exit(1)
    /\ UNCHANGED <<config, driver, browser, session, result, computed, exc,
                   stdout, stderrJson, history, resolver>>
    /\ UNCHANGED trace
    /\ UNCHANGED applied

\* use_proxy = bool(proxy_username and proxy_password)
use_proxy == proxy_username # "" /\ proxy_password # ""

\* a line written to standard error that formats a value into its text
LogLine(text, value) == [text |-> text, value |-> value]

\* main(): parser.parse_args() and the proxy settings; with a proxy the
\* "Proxy enabled" line is written
google_main_parse ==
    /\ mode = "PrimarySearch" /\ pc = "main"
    /\ pc' = "launch"
    /\ stderrLog' = IF use_proxy
                    THEN Append(stderrLog,
                                LogLine("INFO: Proxy enabled with username",
                                        proxy_username))
                    ELSE stderrLog
    /\ UNCHANGED <<config, driver, browser, session, result, computed, exc,
                   io, history, resolver>>
    /\ UNCHANGED <<transcript_button, calls, navTimedOut>>
    /\ UNCHANGED applied

\* setup_driver: options, the proxy argument and its log line, then
\* uc.Chrome(...); a failure is re-raised
google_launch ==
    /\ mode = "PrimarySearch" /\ pc = "launch"
    /\ launchCount' = launchCount + 1
    /\ \E ok \in BOOLEAN :
         IF ok
         THEN /\ browser' = "running"
              /\ pc' = "set_timeout"
              /\ UNCHANGED exc
         ELSE /\ Raise("WebDriverException", "except")
              /\ UNCHANGED browser
    /\ UNCHANGED <<config, driver, session, result, computed, io, quitCount,
                   quitRaised, launchStepFailed, unhandledFault, resolver>>
    /\ calls' = Append(calls, "launch")
    /\ stderrLog' = IF use_proxy
                    THEN Append(stderrLog,
                                LogLine("Using Webshare proxy with embedded auth",
                                        proxy_username))
                    ELSE stderrLog
    /\ UNCHANGED <<transcript_button, navTimedOut>>
    /\ UNCHANGED applied

\* variant: setup_driver returns the driver without registering the script
google_setup_next_return == "homepage"

\* setup_driver: what follows set_page_load_timeout is the registration of
\* the startup script
google_setup_next == "inject"

\* setup_driver: driver.set_page_load_timeout(30); a failure is re-raised and
\* perform_google_search's own `driver` stays None
google_set_page_load_timeout ==
    /\ mode = "PrimarySearch" /\ pc = "set_timeout"
    /\ \E ok \in BOOLEAN :
         IF ok
         THEN /\ pc' = google_setup_next
              /\ UNCHANGED <<exc, launchStepFailed>>
              /\ page_load_timeout' = [seconds |-> google_page_load_timeout(timeout)]
         ELSE /\ Raise("WebDriverException", "except")
              /\ launchStepFailed' = TRUE
              /\ UNCHANGED page_load_timeout
    /\ UNCHANGED <<config, driver, browser, session, result, computed, io,
                   launchCount, quitCount, quitRaised, unhandledFault, resolver>>
    /\ calls' = Append(calls, "set_page_load_timeout")
    /\ UNCHANGED <<transcript_button, navTimedOut, stderrLog>>
    /\ UNCHANGED pollFaulted

\* setup_driver: Page.addScriptToEvaluateOnNewDocument, then return driver
google_inject ==
    /\ mode = "PrimarySearch" /\ pc = "inject"
    /\ \E ok \in BOOLEAN :
         IF ok
         THEN /\ driver' = TRUE
              /\ session' = "Open"
              /\ pc' = "homepage"
              /\ UNCHANGED <<exc, launchStepFailed>>
         ELSE /\ Raise("WebDriverException", "except")
              /\ launchStepFailed' = TRUE
              /\ UNCHANGED <<driver, session>>
    /\ UNCHANGED <<config, browser, result, computed, io, launchCount,
                   quitCount, quitRaised, unhandledFault, resolver>>
    /\ calls' = Append(calls, "addScriptToEvaluateOnNewDocument")
    /\ UNCHANGED <<transcript_button, navTimedOut, stderrLog>>
    /\ UNCHANGED applied

\* driver.get("https://www.google.com"), then the consent cookie (a failure
\* of add_cookie is logged and ignored)
google_homepage ==
    /\ mode = "PrimarySearch" /\ pc = "homepage"
    /\ \E o \in DriverOutcomes :
         /\ navTimedOut' = (navTimedOut \/ o = "timeout")
         /\ IF o = "ok"
            THEN /\ pc' = "navigate"
                 /\ UNCHANGED <<exc, unhandledFault>>
            ELSE /\ Raise(ExcOf(o), "except")
                 /\ unhandledFault' = (unhandledFault \/ o = "error")
    /\ UNCHANGED <<config, driver, browser, session, result, computed, io,
                   launchCount, quitCount, quitRaised, launchStepFailed, resolver>>
    /\ calls' = Append(calls, "get")
    /\ UNCHANGED <<transcript_button, stderrLog>>
    /\ UNCHANGED applied

\* driver.get(search_url)
google_navigate ==
    /\ mode = "PrimarySearch" /\ pc = "navigate"
    /\ \E o \in DriverOutcomes :
         /\ navTimedOut' = (navTimedOut \/ o = "timeout")
         /\ IF o = "ok"
            THEN /\ pc' = "extract"
                 /\ UNCHANGED <<exc, unhandledFault>>
            ELSE /\ Raise(ExcOf(o), "except")
                 /\ unhandledFault' = (unhandledFault \/ o = "error")
    /\ UNCHANGED <<config, driver, browser, session, result, computed, io,
                   launchCount, quitCount, quitRaised, launchStepFailed, resolver>>
    /\ calls' = Append(calls, "get")
    /\ UNCHANGED <<transcript_button, stderrLog>>
    /\ UNCHANGED applied

\* results = extract_search_results(driver, max_results); return success
google_extract ==
    /\ mode = "PrimarySearch" /\ pc = "extract"
    /\ LET ex == google_extract_search_results(dom, max_results)
       IN  /\ result' = google_success_result(ex.results)
           /\ computed' = google_success_result(ex.results)
           /\ calls' = calls \o <<"wait_ready">> \o ex.evaluated
    /\ pc' = "finally"
    /\ UNCHANGED <<config, driver, browser, session, exc, io, history, resolver>>
    /\ UNCHANGED <<transcript_button, navTimedOut, stderrLog>>
    /\ UNCHANGED applied

\* except Exception as e: return {'success': False, 'error': ..., 'query': ...}
google_except ==
    /\ mode = "PrimarySearch" /\ pc = "except"
    /\ result' = google_error_result(exc)
    /\ computed' = google_error_result(exc)
    /\ exc' = "none"
    /\ pc' = "finally"
    /\ UNCHANGED <<config, driver, browser, session, io, history, resolver>>
    /\ UNCHANGED trace
    /\ UNCHANGED applied

\* finally: if driver: try: driver.quit() except Exception: (warning line)
google_finally ==
    /\ mode = "PrimarySearch" /\ pc = "finally"
    /\ IF driver
       THEN /\ quitCount' = quitCount + 1
            /\ \E ok \in BOOLEAN :
                 IF ok
                 THEN /\ browser' = "stopped"
                      /\ session' = "Closed"
                      /\ UNCHANGED quitRaised
                 ELSE /\ quitRaised' = TRUE
                      /\ browser' \in {"running", "stopped"}
                      /\ UNCHANGED session
       ELSE UNCHANGED <<quitCount, quitRaised, browser, session>>
    /\ pc' = "write"
    /\ UNCHANGED <<config, driver, result, computed, exc, io, launchCount,
                   launchStepFailed, unhandledFault, resolver>>
    /\ calls' = IF driver THEN Append(calls, "quit") ELSE calls
    /\ UNCHANGED <<transcript_button, navTimedOut, stderrLog>>
    /\ UNCHANGED applied

\* print(json.dumps(result)); sys.exit(0 if result.get('success') else 1)
google_main_write ==
    /\ mode = "PrimarySearch" /\ pc = "write"
    /\ stdout' = Append(stdout, result)
    /\ Exit(IF Truthy(result) THEN 0 ELSE 1)
    /\ UNCHANGED <<config, driver, browser, session, result, computed, exc,
                   stderrJson, history, resolver>>
    /\ UNCHANGED trace
    /\ UNCHANGED applied

(***************************************************************************)
(* SecondarySearch: src/scrapers/brave-search.py                           *)
(***************************************************************************)
brave_selectors ==
    <<"div.snippet", "div[data-type=web]", "div.result", ".snippet.fdb">>

\* for selector in selectors: find_elements; if result_elements: break
RECURSIVE brave_select(_, _, _)
brave_select(d, i, log) ==
    IF i > Len(brave_selectors)
    THEN [tier |-> 0, elements |-> <<>>, evaluated |-> log]
    ELSE LET found == find_elements(d, i)
             log2 == Append(log, brave_selectors[i])
         IN  IF found # <<>>
             THEN [tier |-> i, elements |-> found, evaluated |-> log2]
             ELSE brave_select(d, i + 1, log2)

\* variant: title and url are resolved apart, each from the first candidate
\* that yields a non-empty value for it
brave_title_url_apart(cands, i, title, url, at) ==
    LET T == {k \in i..Len(cands) : cands[k].found /\ cands[k].text = "text"}
        U == {k \in i..Len(cands) : cands[k].found /\ cands[k].href = "http"}
        ft == CHOOSE k \in T : \A j \in T : k <= j
        fu == CHOOSE k \in U : \A j \in U : k <= j
    IN  <<IF T = {} THEN title ELSE element_text("text", at, <<"title", ft>>),
          IF U = {} THEN url ELSE get_attribute_url("http", Append(at, fu))>>

\* the loop over title_selectors: title and url are read from the same
\* element; the loop is left when both are set
RECURSIVE brave_title_url(_, _, _, _, _)
brave_title_url(cands, i, title, url, at) ==
    IF i > Len(cands)
    THEN <<title, url>>
    ELSE IF ~cands[i].found
         THEN brave_title_url(cands, i + 1, title, url, at)
         ELSE LET t == element_text(cands[i].text, at, <<"title", i>>)
                  u == get_attribute_url(cands[i].href, Append(at, i))
              IN  IF TextTruthy(t) /\ UrlTruthy(u)
                  THEN <<t, u>>
                  ELSE brave_title_url(cands, i + 1, t, u, at)

\* the loop over desc_selectors, left at the first non-empty text
RECURSIVE brave_description(_, _, _, _)
brave_description(cands, i, description, at) ==
    IF i > Len(cands)
    THEN description
    ELSE IF ~cands[i].found
         THEN brave_description(cands, i + 1, description, at)
         ELSE LET t == element_text(cands[i].text, at, <<"description", i>>)
              IN  IF TextTruthy(t)
                  THEN t
                  ELSE brave_description(cands, i + 1, t, at)

\* the record of one container, or None when title or url is not set
brave_record(e, at) ==
    LET tu == brave_title_url(e.titles, 1, None, None, at)
    IN  IF TextTruthy(tu[1]) /\ UrlTruthy(tu[2])
        THEN [title |-> tu[1], url |-> tu[2],
              description |-> brave_description(e.descs, 1, EmptyText, at)]
        ELSE None

\* variant: the loop examines one container less
brave_examined_short(cap) == cap - 1

\* number of containers the loop examines: result_elements[:max_results]
brave_examined(cap) == cap

RECURSIVE brave_loop(_, _, _, _)
brave_loop(elements, tier, i, results) ==
    IF i > Len(elements)
    THEN results
    ELSE LET r == brave_record(elements[i], <<tier, i>>)
         IN  brave_loop(elements, tier, i + 1,
                        IF IsNone(r) THEN results ELSE Append(results, r))

\* the script fallback: the first max_results items, keeping those with a
\* title and a url
brave_js_results(items, cap) ==
    LET examined == Slice(items, cap)
        read == [i \in 1..Len(examined) |->
                    [title |-> element_text(examined[i].title, <<0, i>>, <<"title", 0>>),
                     url |-> js_href(examined[i].url, <<0, i>>),
                     description |-> EmptyText]]
    IN  SelectSeq(read, LAMBDA r : TextTruthy(r.title) /\ UrlTruthy(r.url))

\* variant: the script is evaluated whatever the selectors found
brave_fallback_always(elements) == TRUE

\* if not result_elements: js_results = driver.execute_script(...)
brave_fallback_needed(elements) == elements = <<>>

brave_extract_search_results(d, cap) ==
    IF d.broken
    THEN \* the first find_elements raises: the handler returns results = []
         [results |-> <<>>, evaluated |-> <<brave_selectors[1]>>]
    ELSE LET found == brave_select(d, 1, <<>>)
             parsed == brave_loop(Slice(found.elements, brave_examined(cap)),
                                  found.tier, 1, <<>>)
         IN  IF brave_fallback_needed(found.elements)
             THEN [results |-> IF d.js # <<>>
                               THEN brave_js_results(d.js, cap)
                               ELSE parsed,
                   evaluated |-> Append(found.evaluated, "execute_script")]
             ELSE [results |-> parsed, evaluated |-> found.evaluated]

brave_import_result ==
    [success |-> FALSE, error |-> "Failed to import Selenium", results |-> <<>>]

\* variant: an empty list of records is reported as a failure
brave_success_result_nonempty(rs) ==
    [success |-> rs # <<>>, query |-> "q", results |-> rs, count |-> Len(rs)]

brave_success_result(rs) ==
    [success |-> TRUE, query |-> "q", results |-> rs, count |-> Len(rs)]

brave_error_result(e) ==
    [success |-> FALSE, query |-> "q", error |-> e, results |-> <<>>]

\* the import guard: the JSON goes to the standard output stream, exit 1
brave_import_guard ==
    /\ mode = "SecondarySearch" /\ pc = "import"
    /\ IF importOK
       THEN /\ pc' = "main"
            /\ UNCHANGED <<stdout, exitStatus>>
       ELSE /\ stdout' = Append(stdout, brave_import_result)
            /\ Exit(1)
    /\ UNCHANGED <<config, driver, browser, session, result, computed, exc,
                   stderrJson, history, resolver>>
    /\ UNCHANGED trace
    /\ UNCHANGED applied

\* main(): parser.parse_args()
brave_main_parse ==
    /\ mode = "SecondarySearch" /\ pc = "main"
    /\ pc' = "launch"
    /\ UNCHANGED <<config, driver, browser, session, result, computed, exc,
                   io, history, resolver>>
    /\ UNCHANGED trace
    /\ UNCHANGED applied

\* setup_driver: webdriver.Chrome(service=..., options=...); on a failure the
\* JSON goes to stderr and sys.exit(1) ends the process (SystemExit passes
\* perform_brave_search's `except Exception`, its finally sees driver = None)
brave_launch ==
    /\ mode = "SecondarySearch" /\ pc = "launch"
    /\ launchCount' = launchCount + 1
    /\ \E ok \in BOOLEAN :
         IF ok
         THEN /\ browser' = "running"
              /\ pc' = "set_timeout"
              /\ UNCHANGED <<stderrJson, exitStatus>>
         ELSE /\ stderrJson' = stderrJson + 1
              /\ Exit(1)
              /\ UNCHANGED browser
    /\ UNCHANGED <<config, driver, session, result, computed, exc, stdout,
                   quitCount, quitRaised, launchStepFailed, unhandledFault,
                   resolver>>
    /\ calls' = Append(calls, "launch")
    /\ UNCHANGED <<transcript_button, navTimedOut, stderrLog>>
    /\ UNCHANGED applied

\* setup_driver: driver.set_page_load_timeout(30); return driver
brave_set_page_load_timeout ==
    /\ mode = "SecondarySearch" /\ pc = "set_timeout"
    /\ \E ok \in BOOLEAN :
         IF ok
         THEN /\ driver' = TRUE
              /\ session' = "Open"
              /\ pc' = "navigate"
              /\ UNCHANGED <<stderrJson, exitStatus, launchStepFailed>>
              /\ page_load_timeout' = [seconds |-> brave_page_load_timeout(timeout)]
         ELSE /\ stderrJson' = stderrJson + 1
              /\ Exit(1)
              /\ launchStepFailed' = TRUE
              /\ UNCHANGED <<driver, session>>
              /\ UNCHANGED page_load_timeout
    /\ UNCHANGED <<config, browser, result, computed, exc, stdout, launchCount,
                   quitCount, quitRaised, unhandledFault, resolver>>
    /\ calls' = Append(calls, "set_page_load_timeout")
    /\ UNCHANGED <<transcript_button, navTimedOut, stderrLog>>
    /\ UNCHANGED pollFaulted

\* variant: a page-load timeout is swallowed and the function goes on
brave_get_returns_on_timeout(o) == o # "error"

\* driver.get(search_url) returns; otherwise its exception leaves the try block
brave_get_returns(o) == o = "ok"

\* driver.get(search_url); time.sleep(2); driver.title
brave_navigate ==
    /\ mode = "SecondarySearch" /\ pc = "navigate"
    /\ \E o \in DriverOutcomes :
         /\ navTimedOut' = (navTimedOut \/ o = "timeout")
         /\ IF brave_get_returns(o)
            THEN /\ pc' = "extract"
                 /\ UNCHANGED <<exc, unhandledFault>>
            ELSE /\ Raise(ExcOf(o), "except")
                 /\ unhandledFault' = (unhandledFault \/ o = "error")
    /\ UNCHANGED <<config, driver, browser, session, result, computed, io,
                   launchCount, quitCount, quitRaised, launchStepFailed, resolver>>
    /\ calls' = Append(calls, "get")
    /\ UNCHANGED <<transcript_button, stderrLog>>
    /\ UNCHANGED applied

\* results = extract_search_results(driver, max_results); return success
brave_extract ==
    /\ mode = "SecondarySearch" /\ pc = "extract"
    /\ LET ex == brave_extract_search_results(dom, max_results)
       IN  /\ result' = brave_success_result(ex.results)
           /\ computed' = brave_success_result(ex.results)
           /\ calls' = calls \o ex.evaluated
    /\ pc' = "finally"
    /\ UNCHANGED <<config, driver, browser, session, exc, io, history, resolver>>
    /\ UNCHANGED <<transcript_button, navTimedOut, stderrLog>>
    /\ UNCHANGED applied

\* except Exception as e: return {"success": False, ...}
brave_except ==
    /\ mode = "SecondarySearch" /\ pc = "except"
    /\ result' = brave_error_result(exc)
    /\ computed' = brave_error_result(exc)
    /\ exc' = "none"
    /\ pc' = "finally"
    /\ UNCHANGED <<config, driver, browser, session, io, history, resolver>>
    /\ UNCHANGED trace
    /\ UNCHANGED applied

\* finally: if driver: try: driver.quit() except: pass
brave_finally ==
    /\ mode = "SecondarySearch" /\ pc = "finally"
    /\ IF driver
       THEN /\ quitCount' = quitCount + 1
            /\ \E ok \in BOOLEAN :
                 IF ok
                 THEN /\ browser' = "stopped"
                      /\ session' = "Closed"
                      /\ UNCHANGED quitRaised
                 ELSE /\ quitRaised' = TRUE
                      /\ browser' \in {"running", "stopped"}
                      /\ UNCHANGED session
       ELSE UNCHANGED <<quitCount, quitRaised, browser, session>>
    /\ pc' = "write"
    /\ UNCHANGED <<config, driver, result, computed, exc, io, launchCount,
                   launchStepFailed, unhandledFault, resolver>>
    /\ calls' = IF driver THEN Append(calls, "quit") ELSE calls
    /\ UNCHANGED <<transcript_button, navTimedOut, stderrLog>>
    /\ UNCHANGED applied

\* print(json.dumps(result, indent=2)); if not result['success']: sys.exit(1)
brave_main_write ==
    /\ mode = "SecondarySearch" /\ pc = "write"
    /\ stdout' = Append(stdout, result)
    /\ Exit(IF Truthy(result) THEN 0 ELSE 1)
    /\ UNCHANGED <<config, driver, browser, session, result, computed, exc,
                   stderrJson, history, resolver>>
    /\ UNCHANGED trace
    /\ UNCHANGED applied

(***************************************************************************)
(* CaptionPanel: src/scrapers/youtube-caption-scraper.py                   *)
(***************************************************************************)
yt_age_result ==
    [error |-> "Age-restricted video requires manual verification",
     needsLogin |-> TRUE, videoId |-> "v"]

yt_no_button_result ==
    [error |-> "No transcript button found", videoId |-> "v",
     hasCaptions |-> FALSE]

yt_no_segments_result ==
    [error |-> "Transcript panel opened but no segments found",
     videoId |-> "v", hasCaptions |-> TRUE]

yt_timeout_result(e) == [error |-> e, videoId |-> "v", timeout |-> "timeout"]

yt_error_result(e) == [error |-> e, videoId |-> "v", exception |-> e]

\* one iteration of the segment loop: the timestamp element is looked up
\* first, then the text element; an exception of either skips the segment
yt_segment(seg, i, ts) ==
    IF seg.timestamp = "absent" \/ seg.text = "absent"
    THEN None
    ELSE IF ts
         THEN [timestamp |-> element_text(seg.timestamp, <<1, i>>, <<"timestamp", 0>>),
               text |-> element_text(seg.text, <<1, i>>, <<"text", 0>>)]
         ELSE element_text(seg.text, <<1, i>>, <<"text", 0>>)

\* caption_segments after the loop over segment_elements
yt_caption_segments(segment_elements, ts) ==
    SelectSeq([i \in DOMAIN segment_elements |->
                  yt_segment(segment_elements[i], i, ts)],
              LAMBDA x : ~IsNone(x))

\* ' '.join(...): the string is kept as the sequence of the joined parts
yt_full_text(caption_segments, ts) ==
    [parts |-> IF ts
               THEN [i \in DOMAIN caption_segments |-> caption_segments[i].text]
               ELSE caption_segments]

\* variant: the number of segments the loop extracted
yt_caption_count_extracted(segment_elements, caption_segments) ==
    Len(caption_segments)

\* 'captionCount': len(segment_elements)
yt_caption_count(segment_elements, caption_segments) == Len(segment_elements)

yt_success_result(segment_elements, ts) ==
    LET caption_segments == yt_caption_segments(segment_elements, ts)
    IN  IF ts /\ caption_segments # <<>>
        THEN [success |-> TRUE, videoId |-> "v", title |-> "title",
              text |-> yt_full_text(caption_segments, ts),
              captionCount |-> yt_caption_count(segment_elements, caption_segments),
              language |-> "en", method |-> "selenium-dom",
              includesTimestamps |-> ts,
              segments |-> caption_segments]
        ELSE [success |-> TRUE, videoId |-> "v", title |-> "title",
              text |-> yt_full_text(caption_segments, ts),
              captionCount |-> yt_caption_count(segment_elements, caption_segments),
              language |-> "en", method |-> "selenium-dom",
              includesTimestamps |-> ts]

\* the handler an exception raised in the try block reaches
yt_handler(e) == IF e = "TimeoutException" THEN "except_timeout" ELSE "except"

\* whether the finally block calls driver.quit()
yt_close_guard == driver /\ ~interactive

\* the selenium imports are not guarded: an ImportError ends the process with
\* a traceback; a missing undetected_chromedriver only selects the fallback
yt_import ==
    /\ mode = "CaptionPanel" /\ pc = "import"
    /\ IF importOK
       THEN /\ pc' = "main"
            /\ UNCHANGED exitStatus
       ELSE Exit(1)
    /\ UNCHANGED <<config, driver, browser, session, result, computed, exc,
                   stdout, stderrJson, history, resolver>>
    /\ UNCHANGED trace
    /\ UNCHANGED applied

\* main(): parser.parse_args()
yt_main_parse ==
    /\ mode = "CaptionPanel" /\ pc = "main"
    /\ pc' = "launch"
    /\ UNCHANGED <<config, driver, browser, session, result, computed, exc,
                   io, history, resolver>>
    /\ UNCHANGED trace
    /\ UNCHANGED applied

\* driver = uc.Chrome(options=options) / webdriver.Chrome(options=options)
yt_launch ==
    /\ mode = "CaptionPanel" /\ pc = "launch"
    /\ launchCount' = launchCount + 1
    /\ \E ok \in BOOLEAN :
         IF ok
         THEN /\ driver' = TRUE
              /\ browser' = "running"
              /\ pc' = "set_timeout"
              /\ UNCHANGED exc
         ELSE /\ Raise("WebDriverException", yt_handler("WebDriverException"))
              /\ UNCHANGED <<driver, browser>>
    /\ UNCHANGED <<config, session, result, computed, io, quitCount, quitRaised,
                   launchStepFailed, unhandledFault, resolver>>
    /\ calls' = Append(calls, "launch")
    /\ UNCHANGED <<transcript_button, navTimedOut, stderrLog>>
    /\ UNCHANGED applied

\* driver.set_page_load_timeout(timeout)
yt_set_page_load_timeout ==
    /\ mode = "CaptionPanel" /\ pc = "set_timeout"
    /\ \E ok \in BOOLEAN :
         IF ok
         THEN /\ session' = "Open"
              /\ pc' = "navigate"
              /\ UNCHANGED <<exc, launchStepFailed>>
              /\ page_load_timeout' = [seconds |-> yt_page_load_timeout(timeout)]
         ELSE /\ Raise("WebDriverException", yt_handler("WebDriverException"))
              /\ launchStepFailed' = TRUE
              /\ UNCHANGED session
              /\ UNCHANGED page_load_timeout
    /\ UNCHANGED <<config, driver, browser, result, computed, io, launchCount,
                   quitCount, quitRaised, unhandledFault, resolver>>
    /\ calls' = Append(calls, "set_page_load_timeout")
    /\ UNCHANGED <<transcript_button, navTimedOut, stderrLog>>
    /\ UNCHANGED pollFaulted

\* driver.get(url); wait = WebDriverWait(driver, timeout)
yt_navigate ==
    /\ mode = "CaptionPanel" /\ pc = "navigate"
    /\ \E o \in DriverOutcomes :
         /\ navTimedOut' = (navTimedOut \/ o = "timeout")
         /\ IF o = "ok"
            THEN /\ pc' = "age_gate"
                 /\ UNCHANGED <<exc, unhandledFault>>
            ELSE /\ Raise(ExcOf(o), yt_handler(ExcOf(o)))
                 /\ unhandledFault' = (unhandledFault \/ o = "error")
    /\ UNCHANGED <<config, driver, browser, session, result, computed, io,
                   launchCount, quitCount, quitRaised, launchStepFailed, resolver>>
    /\ calls' = Append(calls, "get")
    /\ UNCHANGED <<transcript_button, stderrLog>>
    /\ UNCHANGED applied

\* the age-restriction check: find_element('ytd-age-gate-renderer')
yt_age_gate ==
    /\ mode = "CaptionPanel" /\ pc = "age_gate"
    /\ \E o \in {"absent", "present", "present_eof", "error"} :
         CASE o = "absent" ->
                \* NoSuchElementException: pass
                /\ pc' = "wait_player"
                /\ UNCHANGED <<exc, result, computed, unhandledFault>>
           [] o = "present" ->
                IF interactive
                THEN \* input() returns
                     /\ pc' = "wait_player"
                     /\ UNCHANGED <<exc, result, computed, unhandledFault>>
                ELSE /\ result' = yt_age_result
                     /\ computed' = yt_age_result
                     /\ pc' = "finally"
                     /\ UNCHANGED <<exc, unhandledFault>>
           [] o = "present_eof" ->
                \* input() raises EOFError on a closed stdin
                /\ interactive
                /\ Raise("EOFError", yt_handler("EOFError"))
                /\ unhandledFault' = TRUE
                /\ UNCHANGED <<result, computed>>
           [] OTHER ->
                /\ Raise("WebDriverException", yt_handler("WebDriverException"))
                /\ unhandledFault' = TRUE
                /\ UNCHANGED <<result, computed>>
    /\ UNCHANGED <<config, driver, browser, session, io, launchCount, quitCount,
                   quitRaised, launchStepFailed, resolver>>
    /\ calls' = Append(calls, "find_age_gate")
    /\ UNCHANGED <<transcript_button, navTimedOut, stderrLog>>
    /\ UNCHANGED applied

\* wait.until(presence of 'movie_player'); scroll; sleep
yt_wait_player ==
    /\ mode = "CaptionPanel" /\ pc = "wait_player"
    /\ \E o \in DriverOutcomes :
         IF o = "ok"
         THEN /\ pc' = "find_transcript"
              /\ UNCHANGED <<exc, unhandledFault>>
         ELSE /\ Raise(ExcOf(o), yt_handler(ExcOf(o)))
              /\ unhandledFault' = (unhandledFault \/ o = "error")
    /\ UNCHANGED <<config, driver, browser, session, result, computed, io,
                   launchCount, quitCount, quitRaised, launchStepFailed, resolver>>
    /\ calls' = Append(calls, "wait_player")
    /\ UNCHANGED <<transcript_button, navTimedOut, stderrLog>>
    /\ UNCHANGED applied

\* transcript_button = None; the first search over the four button selectors
\* (a fault inside the search is swallowed)
yt_find_transcript ==
    /\ mode = "CaptionPanel" /\ pc = "find_transcript"
    /\ calls' = Append(calls, "find_transcript_button")
    /\ \E found \in BOOLEAN :
         IF found
         THEN /\ transcript_button' = "element"
              /\ pc' = "open_panel"
         ELSE /\ transcript_button' = "None"
              /\ pc' = "expand"
    /\ UNCHANGED <<config, driver, browser, session, result, computed, exc, io,
                   history, resolver, navTimedOut, stderrLog>>
    /\ UNCHANGED applied

\* variant: the search for the button is started over
yt_no_button_pc_again == "find_transcript"

\* if not transcript_button (after the second search): return
yt_no_button_pc == "finally"

\* if not transcript_button: expand the description and search again (a
\* fault of the expansion or of the search is swallowed); if still not
\* transcript_button: return the "no transcript button" result
yt_expand_description ==
    /\ mode = "CaptionPanel" /\ pc = "expand"
    /\ \E o \in {"found", "absent", "fault"} :
         /\ calls' = IF o = "fault"
                     THEN Append(calls, "expand_description")
                     ELSE calls \o <<"expand_description",
                                     "find_transcript_button">>
         /\ IF o = "found"
            THEN /\ transcript_button' = "element"
                 /\ pc' = "open_panel"
                 /\ UNCHANGED <<result, computed>>
            ELSE /\ result' = yt_no_button_result
                 /\ computed' = yt_no_button_result
                 /\ pc' = yt_no_button_pc
                 /\ UNCHANGED transcript_button
    /\ UNCHANGED <<config, driver, browser, session, exc, io, history, resolver,
                   navTimedOut, stderrLog>>
    /\ UNCHANGED applied

\* click the button; wait.until(presence of the transcript panel)
yt_open_panel ==
    /\ mode = "CaptionPanel" /\ pc = "open_panel"
    /\ \E o \in DriverOutcomes :
         /\ calls' = IF o = "error"
                     THEN Append(calls, "click_transcript")
                     ELSE calls \o <<"click_transcript", "wait_panel">>
         /\ IF o = "ok"
            THEN /\ pc' = "segments"
                 /\ UNCHANGED <<exc, unhandledFault>>
            ELSE /\ Raise(ExcOf(o), yt_handler(ExcOf(o)))
                 /\ unhandledFault' = (unhandledFault \/ o = "error")
    /\ UNCHANGED <<config, driver, browser, session, result, computed, io,
                   launchCount, quitCount, quitRaised, launchStepFailed, resolver>>
    /\ UNCHANGED <<transcript_button, navTimedOut, stderrLog>>
    /\ UNCHANGED applied

\* find_elements('ytd-transcript-segment-renderer') and the segment loop
yt_segments ==
    /\ mode = "CaptionPanel" /\ pc = "segments"
    /\ \E o \in {"found", "error"} :
         CASE o = "found" /\ dom.segments # <<>> ->
                /\ pc' = "assemble"
                /\ UNCHANGED <<exc, result, computed, unhandledFault>>
           [] o = "found" /\ dom.segments = <<>> ->
                /\ result' = yt_no_segments_result
                /\ computed' = yt_no_segments_result
                /\ pc' = "finally"
                /\ UNCHANGED <<exc, unhandledFault>>
           [] OTHER ->
                /\ Raise("WebDriverException", yt_handler("WebDriverException"))
                /\ unhandledFault' = TRUE
                /\ UNCHANGED <<result, computed>>
    /\ UNCHANGED <<config, driver, browser, session, io, launchCount, quitCount,
                   quitRaised, launchStepFailed, resolver>>
    /\ calls' = Append(calls, "find_segments")
    /\ UNCHANGED <<transcript_button, navTimedOut, stderrLog>>
    /\ UNCHANGED applied

\* full text, title (a fault is swallowed), the interactive pause, the result
yt_assemble ==
    /\ mode = "CaptionPanel" /\ pc = "assemble"
    /\ \E eof \in BOOLEAN :
         IF eof
         THEN \* input() raises EOFError on a closed stdin
              /\ interactive
              /\ Raise("EOFError", yt_handler("EOFError"))
              /\ unhandledFault' = TRUE
              /\ UNCHANGED <<result, computed>>
         ELSE /\ result' = yt_success_result(dom.segments, include_timestamps)
              /\ computed' = yt_success_result(dom.segments, include_timestamps)
              /\ pc' = "finally"
              /\ UNCHANGED <<exc, unhandledFault>>
    /\ UNCHANGED <<config, driver, browser, session, io, launchCount, quitCount,
                   quitRaised, launchStepFailed, resolver>>
    /\ UNCHANGED trace
    /\ UNCHANGED applied

\* except TimeoutException as e
yt_except_timeout ==
    /\ mode = "CaptionPanel" /\ pc = "except_timeout"
    /\ result' = yt_timeout_result(exc)
    /\ computed' = yt_timeout_result(exc)
    /\ exc' = "none"
    /\ pc' = "finally"
    /\ UNCHANGED <<config, driver, browser, session, io, history, resolver>>
    /\ UNCHANGED trace
    /\ UNCHANGED applied

\* except Exception as e
yt_except ==
    /\ mode = "CaptionPanel" /\ pc = "except"
    /\ result' = yt_error_result(exc)
    /\ computed' = yt_error_result(exc)
    /\ exc' = "none"
    /\ pc' = "finally"
    /\ UNCHANGED <<config, driver, browser, session, io, history, resolver>>
    /\ UNCHANGED trace
    /\ UNCHANGED applied

\* finally: if driver and not interactive: driver.quit()   (no try around
\* it: an exception of quit() replaces the pending return value and, main()
\* having no handler, ends the process with a traceback)
yt_finally ==
    /\ mode = "CaptionPanel" /\ pc = "finally"
    /\ IF yt_close_guard
       THEN /\ quitCount' = quitCount + 1
            /\ \E ok \in BOOLEAN :
                 IF ok
                 THEN /\ browser' = "stopped"
                      /\ session' = "Closed"
                      /\ pc' = "write"
                      /\ UNCHANGED <<quitRaised, result, exc, exitStatus>>
                 ELSE /\ quitRaised' = TRUE
                      /\ browser' \in {"running", "stopped"}
                      /\ result' = NoResult
                      /\ exc' = "WebDriverException"
                      /\ Exit(1)
                      /\ UNCHANGED session
       ELSE /\ pc' = "write"
            /\ UNCHANGED <<quitCount, quitRaised, browser, session, result,
                           exc, exitStatus>>
    /\ UNCHANGED <<config, driver, computed, stdout, stderrJson, launchCount,
                   launchStepFailed, unhandledFault, resolver>>
    /\ calls' = IF yt_close_guard THEN Append(calls, "quit") ELSE calls
    /\ UNCHANGED <<transcript_button, navTimedOut, stderrLog>>
    /\ UNCHANGED applied

\* exit status of main(), which prints the result and returns
yt_exit_status(r) == 0

\* print(json.dumps(result, ensure_ascii=False, indent=2)); main() returns
yt_main_write ==
    /\ mode = "CaptionPanel" /\ pc = "write"
    /\ stdout' = Append(stdout, result)
    /\ Exit(yt_exit_status(result))
    /\ UNCHANGED <<config, driver, browser, session, result, computed, exc,
                   stderrJson, history, resolver>>
    /\ UNCHANGED trace
    /\ UNCHANGED applied

Next ==
    \/ uc_import_guard
    \/ uc_main_read
    \/ uc_launch
    \/ uc_set_page_load_timeout
    \/ uc_navigate
    \/ uc_poll
    \/ uc_budget_exit
    \/ uc_after_resolve
    \/ uc_extract
    \/ uc_except
    \/ uc_finally
    \/ uc_main_write
    \/ google_import_guard
    \/ google_main_parse
    \/ google_launch
    \/ google_set_page_load_timeout
    \/ google_inject
    \/ google_homepage
    \/ google_navigate
    \/ google_extract
    \/ google_except
    \/ google_finally
    \/ google_main_write
    \/ brave_import_guard
    \/ brave_main_parse
    \/ brave_launch
    \/ brave_set_page_load_timeout
    \/ brave_navigate
    \/ brave_extract
    \/ brave_except
    \/ brave_finally
    \/ brave_main_write
    \/ yt_import
    \/ yt_main_parse
    \/ yt_launch
    \/ yt_set_page_load_timeout
    \/ yt_navigate
    \/ yt_age_gate
    \/ yt_wait_player
    \/ yt_find_transcript
    \/ yt_expand_description
    \/ yt_open_panel
    \/ yt_segments
    \/ yt_assemble
    \/ yt_except_timeout
    \/ yt_except
    \/ yt_finally
    \/ yt_main_write

Spec == Init /\ [][Next]_vars

(***************************************************************************)
(* The extraction phase alone: the invocation has launched its browser and *)
(* navigated without a fault and stands at its extraction step, against    *)
(* every page of Doms(mode) and every cap.                                 *)
(***************************************************************************)
ExtractInit ==
    /\ mode \in Modes
    /\ input = "ok"
    /\ importOK = TRUE
    /\ interactive = FALSE
    /\ take_screenshot = FALSE
    /\ neverClears = FALSE
    /\ challengePolls = 0
    /\ dom \in Doms(mode)
    /\ max_results \in (IF mode \in {"PrimarySearch", "SecondarySearch"}
                        THEN Caps ELSE {0})
    /\ proxy_username = ""
    /\ proxy_password = ""
    /\ pc = (IF mode = "CaptionPanel" THEN "segments" ELSE "extract")
    /\ driver = TRUE
    /\ browser = "running"
    /\ session = "Open"
    /\ result = NoResult
    /\ computed = NoResult
    /\ exc = "none"
    /\ stdout = <<>>
    /\ stderrJson = 0
    /\ exitStatus = 0
    /\ launchCount = 1
    /\ quitCount = 0
    /\ quitRaised = FALSE
    /\ launchStepFailed = FALSE
    /\ unhandledFault = FALSE
    /\ polls = (IF mode = "GenericPage" THEN 1 ELSE 0)
    /\ elapsed = 0
    /\ cloudflare_detected = FALSE
    /\ warned = FALSE
    /\ budgetExhausted = FALSE
    /\ cyclesEnd = 0
    /\ extractStarted = FALSE
    /\ transcript_button = (IF mode = "CaptionPanel" THEN "element" ELSE "None")
    /\ calls = (CASE mode = "GenericPage" ->
                      <<"launch", "set_page_load_timeout", "get", "poll">>
                  [] mode = "PrimarySearch" ->
                      <<"launch", "set_page_load_timeout",
                        "addScriptToEvaluateOnNewDocument", "get", "get">>
                  [] mode = "CaptionPanel" ->
                      <<"launch", "set_page_load_timeout", "get",
                        "find_age_gate", "wait_player",
                        "find_transcript_button", "click_transcript",
                        "wait_panel">>
                  [] OTHER ->
                      <<"launch", "set_page_load_timeout", "get">>)
    /\ navTimedOut = FALSE
    /\ stderrLog = <<>>
    /\ timeout \in Timeouts(mode)
    /\ include_timestamps \in (IF mode = "CaptionPanel" THEN BOOLEAN ELSE {FALSE})
    /\ pollFaulted = FALSE
    /\ page_load_timeout =
           [seconds |->
              CASE mode = "GenericPage" -> uc_page_load_timeout(timeout)
                [] mode = "PrimarySearch" -> google_page_load_timeout(timeout)
                [] mode = "CaptionPanel" -> yt_page_load_timeout(timeout)
                [] OTHER -> brave_page_load_timeout(timeout)]

ExtractNext ==
    \/ uc_extract
    \/ google_extract
    \/ brave_extract
    \/ yt_segments
    \/ yt_assemble

SpecExtract == ExtractInit /\ [][ExtractNext]_vars

(***************************************************************************)
(* Properties                                                              *)
(***************************************************************************)
Returned == pc \in {"write", "exited"}
Exited == pc = "exited"
Written == IF stdout = <<>> THEN NoResult ELSE stdout[Len(stdout)]

\* C1: once the session has been opened, every exit path of the scrape
\* operation has attempted to close it: no scrape operation returns with
\* its session opened and no driver.quit() issued.
C1_CloseAttemptedOnEveryExit ==
    (Returned /\ session # "Unopened") => quitCount >= 1

\* C2: if the browser process was started and a later launch-time step
\* failed, the process is not left running when the invocation ends.
C2_NoBrowserOutlivesInvocation ==
    (Exited /\ launchStepFailed) => browser # "running"

\* C3: a failure of the browser shutdown call is swallowed: it does not
\* propagate out of the scrape operation and the result computed before the
\* close is the one returned and written.
C3_CloseNeverThrows ==
    quitRaised =>
        /\ exc = "none"
        /\ result = computed
        /\ (Exited => stdout = <<computed>>)

\* C4: the exit status is 0 exactly when the written result has success
\* true, and 1 in every other case.
C4_ExitStatusMatchesSuccess ==
    Exited => exitStatus = (IF IsSuccess(Written) THEN 0 ELSE 1)

\* C5: every invocation that terminates has written exactly one JSON result
\* object to standard output.
C5_ExactlyOneResultWritten ==
    Exited => Len(stdout) = 1

\* the payload fields of each mode's result
PayloadFields(m) ==
    CASE m = "GenericPage" -> {"title", "text", "html", "links", "images"}
      [] m = "CaptionPanel" -> {"videoId", "text"}
      [] OTHER -> {"query", "results", "count"}

WellFormed(r) ==
    IsResult(r) =>
        /\ IsSuccess(r) =>
              (~Has(r, "error") /\ PayloadFields(mode) \subseteq DOMAIN r)
        /\ Has(r, "error") => ~IsSuccess(r)

\* C6: every result with success true has no error field and carries the
\* mode's payload fields; no result that carries an error has success true.
\* This holds of the value the scrape operation computes, of the value it
\* returns and of every object written to standard output.
C6_SuccessHasPayloadAndNoError ==
    /\ WellFormed(result)
    /\ WellFormed(computed)
    /\ \A i \in 1..Len(stdout) : WellFormed(stdout[i])

\* C6 witness: a success result carrying its payload has been written.
C6_Witness ==
    /\ Exited
    /\ IsSuccess(Written)
    /\ PayloadFields(mode) \subseteq DOMAIN Written

\* C7: an input error (empty input, invalid JSON, JSON without url) ends
\* with one success:false result, exit status 1, and the browser launch
\* step is never reached.
C7_InputErrorFailsBeforeLaunch ==
    (mode = "GenericPage" /\ importOK /\ input \in {"empty", "notjson", "nourl"}) =>
        /\ launchCount = 0
        /\ Exited =>
              /\ exitStatus = 1
              /\ Len(stdout) = 1
              /\ Has(stdout[1], "success") /\ stdout[1].success = FALSE

\* C8: an unclassified fault raised after launch is turned into a result
\* whose success field is present and false and whose error carries the
\* message, and the session close is attempted.
C8_UnhandledFaultBecomesFailureResult ==
    (unhandledFault /\ Returned) =>
        /\ IsResult(computed)
        /\ Has(computed, "success") /\ computed.success = FALSE
        /\ Has(computed, "error")
        /\ quitCount >= 1

\* the resolver has returned (by break or by its guard failing)
ResolverReturned == pc \in {"after_resolve", "extract"} \/ extractStarted

\* C9: on a page that shows a challenge at every poll, each poll cycle
\* lasts at least POLL_SLEEP seconds, the loop performs at most
\* MAX_CHALLENGE_WAIT / POLL_SLEEP polls, it ends when the budget is reached,
\* the warning is recorded, and the invocation goes on to extraction before
\* anything else (it does not fail).
C9_NeverClearingPageFailsOpen ==
    (mode = "GenericPage" /\ neverClears) =>
        /\ polls <= MAX_CHALLENGE_WAIT \div POLL_SLEEP
        /\ (pc = "resolve" \/ ResolverReturned) => elapsed >= polls * POLL_SLEEP
        /\ ResolverReturned =>
              /\ budgetExhausted
              /\ polls >= 1
              /\ elapsed >= MAX_CHALLENGE_WAIT
              /\ cloudflare_detected
        /\ (pc = "extract" \/ extractStarted) => warned
        /\ (budgetExhausted /\ pc \notin {"after_resolve", "extract"})
              => extractStarted
        /\ (pc \in {"after_resolve", "extract"}) =>
              (exc = "none" /\ result = NoResult)

\* C9 witness: the never-clearing page has used up the budget after the
\* largest possible number of polls and extraction is about to start.
C9_Witness ==
    /\ mode = "GenericPage" /\ neverClears
    /\ pc = "extract" /\ budgetExhausted /\ warned
    /\ polls = MAX_CHALLENGE_WAIT \div POLL_SLEEP

\* the first challengePolls poll cycles ended before the budget was used up
KIntervalsWithinBudget ==
    /\ polls >= challengePolls
    /\ cyclesEnd < MAX_CHALLENGE_WAIT

\* C10: on a page that shows a challenge for exactly k polls and then is
\* clear, with the k poll cycles ending within the budget, the resolver
\* returns on poll k + 1, after at least k poll cycles and not by budget
\* exhaustion; extraction starts only after the resolver has returned.
C10_SelfResolvingPage ==
    (mode = "GenericPage" /\ ~neverClears) =>
        /\ (ResolverReturned /\ KIntervalsWithinBudget) =>
              /\ polls = challengePolls + 1
              /\ ~budgetExhausted
              /\ elapsed >= challengePolls * POLL_SLEEP
        /\ (pc = "extract" \/ extractStarted) =>
              (budgetExhausted \/ polls = challengePolls + 1)
        /\ (pc = "resolve" /\ exc = "none") => polls <= challengePolls

\* C10 witness: three challenge polls, then clear on the fourth; extraction
\* is about to start.
C10_Witness ==
    /\ mode = "GenericPage" /\ ~neverClears /\ challengePolls = 3
    /\ pc = "extract" /\ polls = 4 /\ ~budgetExhausted
    /\ elapsed >= 3 * POLL_SLEEP

(* ---- the extraction ---- *)
SearchModes == {"PrimarySearch", "SecondarySearch"}
Called(c) == \E i \in DOMAIN calls : calls[i] = c
Before(c, i) == \E j \in 1..(i - 1) : calls[j] = c
Range(q) == {q[i] : i \in DOMAIN q}
Selectors(m) == IF m = "PrimarySearch" THEN google_selectors ELSE brave_selectors
SelectorCalls == SelectSeq(calls, LAMBDA c : c \in Range(Selectors(mode)))
ExtractionCalls ==
    {"title", "wait_ready", "execute_script"} \cup Range(brave_selectors)
        \cup Range(google_selectors)
ExtractionAttempted == \E i \in DOMAIN calls : calls[i] \in ExtractionCalls
ExtractionReturned == pc \in {"finally", "write", "exited"} /\ ExtractionAttempted
Records == computed.results
TierOf(r) == r.url.at[1]
PositionOf(r) == r.url.at[2]

\* C11: container strategies are tried in declaration order; once a strategy
\* yields an element no selector of a later strategy (nor the script fallback)
\* is evaluated, and all records of the output come from that one strategy.
C11_TiersInOrderFirstMatchOnly ==
    mode \in SearchModes =>
        /\ \E k \in 0..Len(Selectors(mode)) :
               SelectorCalls = SubSeq(Selectors(mode), 1, k)
        /\ \A i \in dom.matches, j \in 1..Len(Selectors(mode)) :
               j > i => ~Called(Selectors(mode)[j])
        /\ dom.matches # {} => ~Called("execute_script")
        /\ (ExtractionReturned /\ IsSuccess(computed)) =>
               \A a \in DOMAIN Records :
                   TierOf(Records[a]) =
                       IF dom.matches = {}
                       THEN 0
                       ELSE CHOOSE i \in dom.matches :
                                \A j \in dom.matches : i <= j

\* a page whose second and third strategies both match, extracted with records
C11_Witness ==
    /\ mode = "SecondarySearch"
    /\ ExtractionReturned
    /\ dom.matches = {2, 3}
    /\ Records # <<>>
    /\ SelectorCalls = SubSeq(brave_selectors, 1, 2)

\* C12: every record of a search result has a non-empty title and a non-empty
\* url, and every image record of the generic page a non-empty src.
C12_RequiredRolesNonEmpty ==
    (ExtractionReturned /\ IsSuccess(computed)) =>
        IF mode \in SearchModes
        THEN \A i \in DOMAIN Records :
                 TextTruthy(Records[i].title) /\ UrlTruthy(Records[i].url)
        ELSE \A i \in DOMAIN computed.images : UrlTruthy(computed.images[i].src)

\* the containers the answering tier is given
Exposed(d) == IF d.matches # {} THEN d.containers ELSE d.js

\* the required roles (Title, Url) of a container resolve
RequiredResolve(e) ==
    CASE "h3" \in DOMAIN e -> e.h3 = "text" /\ e.a = "http"
      [] "titles" \in DOMAIN e ->
            \E i \in DOMAIN e.titles :
                /\ e.titles[i].found
                /\ e.titles[i].text = "text"
                /\ e.titles[i].href = "http"
      [] OTHER -> e.title = "text" /\ e.url = "http"

ResolvingPositions(d) ==
    {p \in DOMAIN Exposed(d) : RequiredResolve(Exposed(d)[p])}

\* the k-th position of a set of positions
Nth(S, k) == CHOOSE p \in S : Cardinality({q \in S : q < p}) = k - 1

\* C13 as stated: when the page exposes at least max_results containers whose
\* required roles resolve, the results are exactly the first max_results of
\* them, in DOM order.
C13_CapOverResolvingContainers ==
    (/\ mode \in SearchModes
     /\ ExtractionReturned /\ IsSuccess(computed)
     /\ ~dom.broken
     /\ Cardinality(ResolvingPositions(dom)) >= max_results) =>
        /\ Len(Records) = max_results
        /\ \A k \in 1..max_results :
               PositionOf(Records[k]) = Nth(ResolvingPositions(dom), k)

\* C13 amended: when the first max_results containers of the page all have
\* their required roles resolve (and the extraction's driver calls succeed),
\* the results are exactly these containers, in DOM order.
C13_CapOverLeadingContainers ==
    (/\ mode \in SearchModes
     /\ ExtractionReturned /\ IsSuccess(computed)
     /\ ~dom.broken
     /\ Len(Exposed(dom)) >= max_results
     /\ \A p \in 1..max_results : RequiredResolve(Exposed(dom)[p])) =>
        /\ Len(Records) = max_results
        /\ \A k \in 1..max_results : PositionOf(Records[k]) = k

\* three containers, the first two resolving, capped at two
C13_Witness ==
    /\ mode \in SearchModes
    /\ ExtractionReturned
    /\ ~dom.broken
    /\ max_results = 2
    /\ Len(Exposed(dom)) = 3
    /\ \A p \in 1..2 : RequiredResolve(Exposed(dom)[p])
    /\ Len(Records) = 2

(* ---- navigation timeout ---- *)
TimeoutReported(r) == IsResult(r) /\ Has(r, "error") /\ r.error = "TimeoutException"
NavModes == {"GenericPage", "SecondarySearch", "PrimarySearch"}

\* C14 as stated: after a page-load timeout the extraction is still attempted
\* and the timeout is reported in the result.
C14_TimeoutStillExtracts ==
    (mode \in NavModes /\ navTimedOut /\ Returned) =>
        ExtractionAttempted /\ TimeoutReported(computed)

\* C14 amended: a page-load timeout is reported as the error of a failure
\* result and ends the work: the extraction phase is skipped.
C14_TimeoutSkipsExtraction ==
    (mode \in NavModes /\ navTimedOut) =>
        /\ ~ExtractionAttempted
        /\ Returned =>
               /\ TimeoutReported(computed)
               /\ ~IsSuccess(computed)
               /\ result = computed
        /\ Exited => stdout = <<computed>> /\ exitStatus = 1

C14_Witness ==
    /\ mode = "SecondarySearch"
    /\ navTimedOut
    /\ Exited
    /\ TimeoutReported(Written)

(* ---- empty result ---- *)
\* the records extract_search_results returns for the page
ExtractedRecords ==
    IF mode = "PrimarySearch"
    THEN google_extract_search_results(dom, max_results).results
    ELSE brave_extract_search_results(dom, max_results).results

\* C15: in the search modes an extraction that yields no record is reported
\* as a success with an empty results list and count 0, and the process
\* ends with status 0.
C15_ZeroRecordsIsSuccess ==
    (mode \in SearchModes /\ ExtractionReturned /\ ExtractedRecords = <<>>) =>
        /\ IsSuccess(computed)
        /\ computed.results = <<>>
        /\ computed.count = 0
        /\ result = computed
        /\ Exited => stdout = <<computed>> /\ exitStatus = 0

\* a page whose only container is dropped
C15_Witness ==
    /\ mode = "SecondarySearch"
    /\ Exited
    /\ ExtractionAttempted
    /\ dom.containers # <<>>
    /\ ~dom.broken
    /\ IsSuccess(Written)
    /\ Written.count = 0

(* ---- caption mode ---- *)
\* both searches for the transcript button have ended without a button
TranscriptAbsent ==
    /\ mode = "CaptionPanel"
    /\ Called("expand_description")
    /\ pc # "expand"
    /\ transcript_button = "None"

\* C16: when no transcript button is found before and after the expansion of
\* the description, neither the panel wait nor the segment extraction is
\* executed, and the invocation returns an error result with hasCaptions
\* false and no success.
C16_NoTranscriptControl ==
    TranscriptAbsent =>
        /\ ~Called("click_transcript")
        /\ ~Called("wait_panel")
        /\ ~Called("find_segments")
        /\ Returned =>
               /\ IsResult(result)
               /\ Has(result, "error")
               /\ Has(result, "hasCaptions") /\ result.hasCaptions = FALSE
               /\ ~Has(result, "success")
        /\ Exited => stdout = <<result>>

(* ---- generic page links ---- *)
\* the links of the page the claim requires in the payload: those whose
\* href is set and is not a same-page fragment anchor
OrdinaryLinks(d) ==
    SelectSeq([i \in 1..Len(d.links) |-> i],
              LAMBDA i : d.links[i] \notin {"fragment", "empty"})

\* C17: no link to a same-page fragment anchor is in the links payload, every
\* other examined link is, in DOM order; the page with two ordinary links,
\* one fragment-only link and one image yields two links and one image.
C17_FragmentLinksExcluded ==
    (mode = "GenericPage" /\ ExtractionReturned /\ IsSuccess(computed)) =>
        /\ \A i \in DOMAIN computed.links : ~computed.links[i].href.samePage
        /\ [i \in DOMAIN computed.links |-> computed.links[i].href.at[2]]
               = OrdinaryLinks(dom)
        /\ dom = ScenarioPage =>
               Len(computed.links) = 2 /\ Len(computed.images) = 1

(* ---- proxy credentials ---- *)
Credentials == {proxy_username, proxy_password} \ {""}

\* C19: no line written to a standard stream carries the proxy username or
\* the proxy password.
C19_CredentialsNeverLogged ==
    \A i \in DOMAIN stderrLog : stderrLog[i].value \notin Credentials

(* ---- startup script ---- *)
StartupScript == "addScriptToEvaluateOnNewDocument"

\* C20: in primary-search mode every navigation is issued after the startup
\* script was registered, and no other mode registers it.
C20_ScriptBeforeFirstNavigation ==
    /\ mode = "PrimarySearch" =>
           \A i \in DOMAIN calls : calls[i] = "get" => Before(StartupScript, i)
    /\ mode # "PrimarySearch" => ~Called(StartupScript)

\* the homepage visit and the search navigation have both been issued
C20_Witness ==
    /\ mode = "PrimarySearch"
    /\ Cardinality({i \in DOMAIN calls : calls[i] = "get"}) = 2
    /\ Called(StartupScript)

(***************************************************************************)
(* Faults and warnings of the interstitial resolver                        *)
(***************************************************************************)
WarningDecided == mode = "GenericPage" /\ (pc = "extract" \/ extractStarted)

\* C21 as stated: a driver failure during an interstitial poll is fail-open:
\* the resolver does not raise and the invocation goes on to extraction
\* instead of ending with a failure result.
C21_PollFaultFailsOpen ==
    pollFaulted =>
        /\ pc # "except"
        /\ exc = "none"
        /\ Returned => extractStarted /\ IsSuccess(computed)

\* C21 amended: a driver failure during an interstitial poll leaves the poll
\* loop and the try block as an exception: extraction is never attempted,
\* the top-level handler builds the failure result carrying the exception,
\* and the session is still closed. Only the exhaustion of the wall-clock
\* budget is fail-open.
C21_PollFaultIsFailureResult ==
    pollFaulted =>
        /\ ~extractStarted
        /\ ~ExtractionAttempted
        /\ ~warned
        /\ pc \in {"except", "finally", "write", "exited"}
        /\ pc \in {"finally", "write", "exited"} =>
               computed = uc_error_result("WebDriverException")
        /\ Returned => result = computed /\ quitCount = 1
        /\ Exited => Written = computed

C21_Witness ==
    /\ pollFaulted
    /\ Exited
    /\ polls >= 2
    /\ cloudflare_detected
    /\ Written = uc_error_result("WebDriverException")

\* C22: the "challenge still present" warning is written exactly when the
\* poll loop ended by exhausting its budget with the challenge still
\* detected; a challenge that cleared within the budget, and a page that
\* never showed one, produce no warning.
C22_WarningIffBudgetExhausted ==
    WarningDecided => (warned <=> (budgetExhausted /\ cloudflare_detected))

(***************************************************************************)
(* The script fallback of the secondary search                             *)
(***************************************************************************)
ScriptEvaluated == Called("execute_script")
NoStrategyMatched == ~dom.broken /\ dom.matches = {}

\* the positions of the leading `cap` script items that carry a title and a url
ScriptPositions(d, cap) ==
    {p \in 1..Min(cap, Len(d.js)) : RequiredResolve(d.js[p])}

\* C23: the script fallback is evaluated if and only if every selector
\* strategy yielded zero elements; when it returns a non-empty list the
\* output is built from that list alone, capped at max_results and keeping
\* only the items with a title and a url; when it returns an empty list the
\* output is empty.
C23_ScriptFallbackIffNoStrategyMatched ==
    (mode = "SecondarySearch" /\ ExtractionReturned) =>
        /\ ScriptEvaluated <=> NoStrategyMatched
        /\ ScriptEvaluated =>
              /\ IsSuccess(computed)
              /\ Len(Records) <= max_results
              /\ Len(Records) = Cardinality(ScriptPositions(dom, max_results))
              /\ \A a \in DOMAIN Records :
                    /\ TierOf(Records[a]) = 0
                    /\ PositionOf(Records[a]) =
                           Nth(ScriptPositions(dom, max_results), a)
                    /\ TextTruthy(Records[a].title)
                    /\ UrlTruthy(Records[a].url)
              /\ dom.js = <<>> => Records = <<>>

\* the script returned three items, the second without a usable title, and
\* the output holds the first and only other item within the cap
C23_Witness ==
    /\ mode = "SecondarySearch" /\ ExtractionReturned
    /\ ScriptEvaluated
    /\ Len(dom.js) = 3
    /\ ~RequiredResolve(dom.js[2])
    /\ max_results = 2
    /\ Len(Records) = 1
    /\ PositionOf(Records[1]) = 1

(***************************************************************************)
(* Candidate selectors of a role (secondary search)                        *)
(***************************************************************************)
First(S) == CHOOSE k \in S : \A j \in S : k <= j
ContainerOf(r) == dom.containers[PositionOf(r)]
DomRecords ==
    IF mode = "SecondarySearch" /\ ExtractionReturned /\ dom.matches # {}
    THEN {Records[a] : a \in DOMAIN Records}
    ELSE {}

\* the candidates of a container that yield a non-empty value for a role
TitleYielding(e) ==
    {k \in DOMAIN e.titles : e.titles[k].found /\ e.titles[k].text = "text"}
UrlYielding(e) ==
    {k \in DOMAIN e.titles : e.titles[k].found /\ e.titles[k].href = "http"}
DescriptionYielding(e) ==
    {k \in DOMAIN e.descs : e.descs[k].found /\ e.descs[k].text = "text"}

DescriptionFromFirst(r) ==
    LET D == DescriptionYielding(ContainerOf(r))
    IN  IF D = {}
        THEN ~TextTruthy(r.description)
        ELSE /\ TextTruthy(r.description)
             /\ r.description.role = <<"description", First(D)>>

CaptionSuccess == mode = "CaptionPanel" /\ pc \in {"finally", "write", "exited"}
                     /\ IsSuccess(computed)

\* a container without a snippet / description whose Title and Url resolve
LacksSnippet(e) ==
    IF "h3" \in DOMAIN e
    THEN e.snippet = "absent"
    ELSE DescriptionYielding(e) = {}

\* the segment positions whose text is part of the result's text
TextPositions == {computed.text.parts[a].at[2] : a \in
                     {b \in DOMAIN computed.text.parts :
                          TextTruthy(computed.text.parts[b])}}

\* search part of C25: within the cap, a container whose required roles
\* resolve and that has no snippet / description is in the output
SnippetNotRequired ==
    (mode \in SearchModes /\ ExtractionReturned /\ dom.matches # {}
          /\ ~dom.broken) =>
        \A p \in 1..Min(max_results, Len(dom.containers)) :
            (RequiredResolve(dom.containers[p]) /\ LacksSnippet(dom.containers[p]))
                => \E a \in DOMAIN Records : PositionOf(Records[a]) = p

\* caption part of C25: without --timestamps, a segment that has a text but
\* no timestamp element is in the output
TimestampNotRequired ==
    (CaptionSuccess /\ ~include_timestamps) =>
        \A i \in DOMAIN dom.segments :
            (dom.segments[i].text = "text" /\ dom.segments[i].timestamp = "absent")
                => i \in TextPositions

\* C25: failing to resolve a role that is not required never drops the
\* record: a search result without snippet / description, and a caption
\* segment without a timestamp element when timestamps were not requested,
\* are still present in the output.
C25_OptionalRoleNeverDropsRecord == SnippetNotRequired /\ TimestampNotRequired

\* C30: in a successful caption result captionCount equals the number of
\* caption segments actually extracted (those whose text is joined into
\* `text`, and the length of `segments` when timestamps were requested),
\* also when some segment elements failed to extract.
C30_CaptionCountIsExtractedCount ==
    CaptionSuccess =>
        /\ computed.captionCount = Len(computed.text.parts)
        /\ "segments" \in DOMAIN computed =>
               computed.captionCount = Len(computed.segments)

(***************************************************************************)
(* The page-load timeout of the session                                    *)
(***************************************************************************)
\* the modes whose configuration or command line carries a timeout
TimeoutModes == {"GenericPage", "PrimarySearch", "CaptionPanel"}

\* the configured timeout, in milliseconds
ConfiguredMs == IF mode = "GenericPage" THEN timeout ELSE timeout * 1000

\* C26: in every mode that accepts a timeout, the page-load timeout set on
\* the session equals the timeout of the invocation's configuration; it is
\* never replaced by a fixed constant.
C26_PageLoadTimeoutIsConfigured ==
    (mode \in TimeoutModes /\ ~IsNone(page_load_timeout)) =>
        page_load_timeout.seconds * 1000 = ConfiguredMs

(***************************************************************************)
(* Order of the phases (generic page)                                      *)
(***************************************************************************)
PhaseOf(c) ==
    CASE c \in {"launch", "set_page_load_timeout"} -> 1
      [] c = "get" -> 2
      [] c = "poll" -> 3
      [] c = "quit" -> 6
      [] OTHER -> 4

\* the poll loop was run and left, by its break or by its guard
ResolverHasReturned ==
    /\ polls >= 1
    /\ ~pollFaulted
    /\ budgetExhausted \/ ~is_challenge(polls)

\* C27: the phases of an invocation run in the order open, navigate, resolve
\* interstitial, extract, assemble, close: extraction never starts before the
\* resolver has returned, the result is assembled before the session is
\* closed, and no driver call is issued after the close.
C27_PhasesInOrder ==
    mode = "GenericPage" =>
        /\ \A i, j \in DOMAIN calls :
               i < j => PhaseOf(calls[i]) <= PhaseOf(calls[j])
        /\ (extractStarted \/ ExtractionAttempted) => ResolverHasReturned
        /\ (Called("quit") \/ session = "Closed") => IsResult(computed)
        /\ \A i \in DOMAIN calls : calls[i] = "quit" => i = Len(calls)

\* a page that showed a challenge, was extracted and closed: every phase ran
C27_Witness ==
    /\ mode = "GenericPage" /\ Exited
    /\ polls >= 2
    /\ IsSuccess(Written)
    /\ session = "Closed"
    /\ {PhaseOf(calls[i]) : i \in DOMAIN calls} = {1, 2, 3, 4, 6}

(***************************************************************************)
(* Retries                                                                 *)
(***************************************************************************)
Count(c) == Cardinality({i \in DOMAIN calls : calls[i] = c})

\* the page loads of a run: the primary search loads the home page of the
\* search engine and then the target, the other modes the target only
Navigations == IF mode = "PrimarySearch" THEN 2 ELSE 1

LaunchAndNavigationOnce ==
    /\ Count("launch") <= 1
    /\ launchCount <= 1
    /\ Count("get") <= Navigations

ContainerSelectorsOnce ==
    /\ \A i \in DOMAIN brave_selectors : Count(brave_selectors[i]) <= 1
    /\ \A i \in DOMAIN google_selectors : Count(google_selectors[i]) <= 1

\* C28 as stated: nothing but the interstitial poll is retried: the browser
\* launch, the navigation to the target and each selector search, the
\* search for the transcript control included, are attempted at most once.
C28_NothingRetried ==
    /\ LaunchAndNavigationOnce
    /\ ContainerSelectorsOnce
    /\ Count("find_transcript_button") <= 1

\* C28 amended: the browser launch, the navigation to the target and each
\* container selector are attempted at most once; the search for the
\* transcript control is attempted at most twice, the second time only after
\* the first found nothing and the description has been expanded, once.
C28_TranscriptSearchRepeatedOnce ==
    /\ LaunchAndNavigationOnce
    /\ ContainerSelectorsOnce
    /\ Count("find_transcript_button") <= 2
    /\ Count("expand_description") <= 1
    /\ \A i \in DOMAIN calls :
          (calls[i] = "find_transcript_button" /\ Before("find_transcript_button", i))
              => /\ calls[i - 1] = "expand_description"
                 /\ calls[i - 2] = "find_transcript_button"

\* the control was found by the second search and the panel was read
C28_Witness ==
    /\ mode = "CaptionPanel"
    /\ Count("find_transcript_button") = 2
    /\ transcript_button = "element"
    /\ Called("find_segments")
    /\ Exited

(***************************************************************************)
(* Caps of the payloads                                                    *)
(***************************************************************************)
\* C29: in every run the links payload has at most 100 entries, the images
\* payload at most 50, and for every max_results >= 0 the search results
\* list has at most max_results entries, whichever tier produced them.
C29_PayloadCaps ==
    (ExtractionReturned /\ IsSuccess(computed)) =>
        /\ mode = "GenericPage" =>
              /\ Len(computed.links) <= 100
              /\ Len(computed.images) <= 50
        /\ mode \in SearchModes => Len(Records) <= max_results

\* a page with 101 links and 51 images, extracted: both payloads are full
C29_Witness ==
    /\ mode = "GenericPage" /\ ExtractionReturned /\ IsSuccess(computed)
    /\ Len(dom.links) > 100 /\ Len(dom.images) > 50
    /\ Len(computed.links) = 100
    /\ Len(computed.images) = 50

\* pages exposing more resolving records than the cap, in either tier and
\* with a cap of zero
C29_SearchCapReached ==
    /\ mode \in SearchModes /\ ExtractionReturned
    /\ Cardinality(ResolvingPositions(dom)) > max_results
    /\ Len(Records) = max_results
====
